---- MODULE Spec2Model ----
(***************************************************************************)
(* State-machine model of the realtime session layer of XianyuAgentBot:    *)
(*   src/core/websocket_client.py  XianyuLive (connection loop, token      *)
(*                                 refresh loop, registration)             *)
(*   src/core/heartbeat.py         HeartbeatManager                        *)
(*   src/core/message_handler.py   MessageHandler (dispatcher, takeover    *)
(*                                 registry)                               *)
(* All coroutines run on one asyncio event loop: a coroutine runs without  *)
(* interruption from one await to the next, so each action below is the    *)
(* code between two suspension points.  Time is a counter of seconds; it   *)
(* advances only when no coroutine is ready to run.                        *)
(***************************************************************************)
EXTENDS Integers, Sequences, FiniteSets, TLC

(***************************************************************************)
(* Bounds of the exploration.                                              *)
(***************************************************************************)
MaxTime == 7
MaxGen == 2
MaxTok == 2
MaxInbox == 2
MaxSessionChat == 1
DispatchTime == 1
MaxChat == 2
MaxTextLen == 3
RobustTime == 3
TakeoverTime == 2
RegistryTime == 2
LoopTime == 5

(***************************************************************************)
(* Tunables read from the environment (os.getenv), set to small values.    *)
(***************************************************************************)
HeartbeatInterval == 2
HeartbeatTimeout == 1
TokenRefreshInterval == 4
TokenRetryInterval == 2
ManualModeTimeout == 1
MessageExpireTime == 1000

(***************************************************************************)
(* asyncio.sleep(1) of the heartbeat loop and of init; time.time() * 1000. *)
(***************************************************************************)
HeartbeatSleep == 1
InitSleep == 1
MsPerSecond == 1000

(***************************************************************************)
(* asyncio.sleep(60) of the refresh loop and asyncio.sleep(5) of the       *)
(* reconnect path, scaled with the other durations.                        *)
(***************************************************************************)
TokenPollSleep == 2
ReconnectSleep == 2

MyId == "me"
Customers == {"u1"}
Convs == {"c1", "c2"}
ItemIds == {"i1"}
NoItem == "none"
Space == " "
ToggleKeywords == <<"o", "k">>
Texts == {ToggleKeywords, <<"h", "i">>}

(***************************************************************************)
(* A frame as the receive loop sees it.  kind: "ack200" a document with    *)
(* code 200 and headers.mid; "other" a document that is no sync package or *)
(* whose payload is plain JSON; "badjson" text that json.loads rejects;    *)
(* "undecryptable" a sync package whose payload decrypt() rejects; "chat"  *)
(* a sync package whose payload decrypts to the document the other fields  *)
(* describe:                                                               *)
(*   order    message["3"]["redReminder"]: "none" when absent or empty     *)
(*   one      message["1"]: "chat" a dict with ["10"]["reminderContent"],  *)
(*            "str" the string "<buyer>@goofish", "typing" the list of a   *)
(*            typing notice, "absent"                                      *)
(*   missing  which of the further chat fields is absent: "early" one of   *)
(*            ["5"], reminderTitle, senderUserId; "late" reminderUrl or    *)
(*            ["2"]; "none"                                                *)
(*   sys      message["3"]["needPush"] = "false"                           *)
(*   title, price  message["3"]["title"], message["3"]["price"]            *)
(* kind "wire" is a JSON document of which only headers and body matter.   *)
(*   headers  message_data["headers"]: whether present, its mid and sid    *)
(*            ("" when absent) and which of app-key, ua, dt it carries     *)
(*   body     what decoding meets: sync  is_sync_package; data  "data" in  *)
(*            the first batched entry; plain  the payload base64-decodes   *)
(*            and parses as JSON; decrypts  decrypt() and json.loads       *)
(*            succeed on it; more  the texts of the chat messages in the   *)
(*            further batched entries (kind "batch" when there are some)   *)
(***************************************************************************)
OrderLabels == {"pay", "closed", "ship", "other"}
OneShapes == {"chat", "str", "typing", "absent"}
MissingFields == {"none", "early", "late"}
Titles == {"t1", "t2"}

MirroredKeys == {"app-key", "ua", "dt"}
NoHeaders == [has |-> FALSE, mid |-> "", sid |-> "", keys |-> {}]
PushHeaders == [has |-> TRUE, mid |-> "m1", sid |-> "s1", keys |-> {}]
HeartbeatAckHeaders == [has |-> TRUE, mid |-> "hb", sid |-> "", keys |-> {}]
ResponseHeaders == [has |-> TRUE, mid |-> "reg", sid |-> "", keys |-> {}]

NoBody == [sync |-> FALSE, data |-> FALSE, plain |-> FALSE, decrypts |-> FALSE,
           more |-> <<>>]
CipherBody == [sync |-> TRUE, data |-> TRUE, plain |-> FALSE, decrypts |-> TRUE,
               more |-> <<>>]
GarbledBody == [sync |-> TRUE, data |-> TRUE, plain |-> FALSE, decrypts |-> FALSE,
                more |-> <<>>]

NoMsg == [kind |-> "none", chat |-> "none", sender |-> "none", text |-> <<>>,
          ctime |-> 0, item |-> NoItem, sys |-> FALSE, order |-> "none",
          one |-> "chat", missing |-> "none", title |-> "t1", price |-> "p1",
          headers |-> PushHeaders, body |-> NoBody]
AckFrame == [NoMsg EXCEPT !.kind = "ack200", !.headers = HeartbeatAckHeaders]
ResponseFrame == [NoMsg EXCEPT !.kind = "ack200", !.headers = ResponseHeaders]
OtherFrame == [NoMsg EXCEPT !.kind = "other"]
BadJsonFrame == [NoMsg EXCEPT !.kind = "badjson", !.headers = NoHeaders]
UndecryptableFrame == [NoMsg EXCEPT !.kind = "undecryptable", !.body = GarbledBody]

VARIABLES
    now,                      \* time.time(), in seconds
    mainPc, mainWake,         \* XianyuLive.main: position, pending sleep
    gen, wsOpen, inbox,       \* socket: generation, open, frames not yet read
    connection_restart_flag,
    current_token, last_token_refresh_time,
    tokPc, tokWake,           \* token_refresh_loop task
    issued,                   \* tokens issued by the token service so far
    last_heartbeat_time, last_heartbeat_response,
    hbPc, hbWake,             \* HeartbeatManager.loop task
    hPc, hMsg, hWs,           \* MessageHandler.handle awaiting the executor
    manual_mode_conversations, manual_mode_timestamps,
    store,                    \* add_message_by_chat records
    items,                    \* item ids with saved item info
    sent,                     \* outbound chat frames (send_msg)
    notified,                 \* calls of _send_order_notification
    acks,                     \* acknowledgement frames sent by handle()
    regToken,                 \* token of the last /reg frame sent
    chats,                    \* frames other than code-200 answers delivered so far
    horizon,                  \* the time at which the exploration stops
    ev                        \* what the last step did (observation only)

vars == <<now, mainPc, mainWake, gen, wsOpen, inbox, connection_restart_flag,
          current_token, last_token_refresh_time, tokPc, tokWake, issued,
          last_heartbeat_time, last_heartbeat_response, hbPc, hbWake,
          hPc, hMsg, hWs, manual_mode_conversations, manual_mode_timestamps,
          store, items, sent, notified, acks, regToken, chats, horizon, ev>>

mainVars == <<mainPc, mainWake>>
sockVars == <<gen, wsOpen, inbox>>
tokVars == <<connection_restart_flag, current_token, last_token_refresh_time,
             tokPc, tokWake, issued>>
hbVars == <<last_heartbeat_time, last_heartbeat_response, hbPc, hbWake>>
handlerVars == <<hPc, hMsg, hWs>>
registryVars == <<manual_mode_conversations, manual_mode_timestamps>>
dataVars == <<store, items, sent, notified, acks, chats, horizon>>

NowMs == now * MsPerSecond

(***************************************************************************)
(* str.strip() and the substring test `a in b` of Python, on sequences of  *)
(* characters.                                                             *)
(***************************************************************************)
RECURSIVE LStrip(_)
LStrip(s) == IF s # <<>> /\ Head(s) = Space THEN LStrip(Tail(s)) ELSE s

RECURSIVE RStrip(_)
RStrip(s) ==
    IF s # <<>> /\ s[Len(s)] = Space THEN RStrip(SubSeq(s, 1, Len(s) - 1)) ELSE s

Strip(s) == RStrip(LStrip(s))

IsSubstring(s, t) ==
    \E i \in 0..(Len(t) - Len(s)) : SubSeq(t, i + 1, i + Len(s)) = s

check_toggle_keywords(message) == IsSubstring(Strip(message), ToggleKeywords)

(***************************************************************************)
(* Takeover registry.  R is [convs |-> set, ts |-> timestamps]; t is the   *)
(* time of the call.  is_manual_mode both answers and lazily expires, so   *)
(* it is given as its result and the registry it leaves.                   *)
(***************************************************************************)
Registry == [convs |-> manual_mode_conversations, ts |-> manual_mode_timestamps]

exit_manual_modeKeepsTimestamp(R, c) == [convs |-> R.convs \ {c}, ts |-> R.ts]

exit_manual_mode(R, c) ==
    [convs |-> R.convs \ {c},
     ts |-> [x \in (DOMAIN R.ts) \ {c} |-> R.ts[x]]]

enter_manual_mode(R, c, t) ==
    [convs |-> R.convs \cup {c},
     ts |-> [x \in (DOMAIN R.ts) \cup {c} |-> IF x = c THEN t ELSE R.ts[x]]]

ManualExpiredInclusive(R, c, t) ==
    c \in DOMAIN R.ts /\ t - R.ts[c] >= ManualModeTimeout

ManualExpired(R, c, t) == c \in DOMAIN R.ts /\ t - R.ts[c] > ManualModeTimeout

is_manual_mode(R, c, t) == c \in R.convs /\ ~ManualExpired(R, c, t)

after_is_manual_mode(R, c, t) ==
    IF c \in R.convs /\ ManualExpired(R, c, t) THEN exit_manual_mode(R, c) ELSE R

toggle_manual_mode(R, c, t) ==
    IF is_manual_mode(R, c, t)
    THEN [reg |-> exit_manual_mode(after_is_manual_mode(R, c, t), c), mode |-> "auto"]
    ELSE [reg |-> enter_manual_mode(after_is_manual_mode(R, c, t), c, t), mode |-> "manual"]

(***************************************************************************)
(* MessageHandler.handle on a decoded chat message m, up to its first      *)
(* suspension (run_in_executor).  api is the answer of the item API should *)
(* it be called.  The result names the branch taken and the state left.    *)
(***************************************************************************)
IsExpiredInclusive(m) == NowMs - m.ctime >= MessageExpireTime

IsExpired(m) == NowMs - m.ctime > MessageExpireTime

IsSelf(m) == m.sender = MyId

TakeoverGateSkipped(R, c, t) == FALSE

TakeoverGate(R, c, t) == is_manual_mode(R, c, t)

Record(chat, role, text) == [chat |-> chat, role |-> role, text |-> text]

Outcome(out, R, st, it, m) ==
    [out |-> out, reg |-> R, store |-> st, items |-> it, msg |-> m]

\* The acknowledgement handle() sends for a frame with headers: code 200, the
\* inbound mid (a generated one when absent), the inbound sid ("" when absent)
\* and those of app-key, ua, dt that the frame carries.
Acknowledgement(h) ==
    [mid |-> IF h.mid = "" THEN "generated" ELSE h.mid, sid |-> h.sid,
     keys |-> h.keys \cap MirroredKeys]

AcksAfter(f) == IF f.headers.has THEN Append(acks, Acknowledgement(f.headers)) ELSE acks

\* handle() from is_sync_package to the decrypted document, first match wins.
DecodeDecryptFirst(b) ==
    IF ~b.sync THEN "not_sync"
    ELSE IF ~b.data THEN "no_data"
    ELSE IF b.decrypts THEN "document"
    ELSE IF b.plain THEN "plaintext"
    ELSE "decrypt_failed"

Decode(b) ==
    IF ~b.sync THEN "not_sync"
    ELSE IF ~b.data THEN "no_data"
    ELSE IF b.plain THEN "plaintext"
    ELSE IF b.decrypts THEN "document"
    ELSE "decrypt_failed"

\* The texts of the updates of a sync package, in the order of
\* body.syncPushPackage.data, and the update handle() decodes: data[0].
UpdateTexts(f) == <<f.text>> \o f.body.more

sync_dataLast(f) == [f EXCEPT !.text = UpdateTexts(f)[Len(UpdateTexts(f))]]

sync_data(f) == [f EXCEPT !.text = UpdateTexts(f)[1]]

\* The frames handle() is called with: JSON documents that handle_response
\* did not take.
\* HeartbeatManager.handle_response: a document with code 200 whose headers
\* hold a mid.
handle_responseAnyCode200(f) == f.kind = "ack200"

handle_response(f) == f.kind = "ack200" /\ f.headers.has /\ f.headers.mid # ""

IsHandled(f) == f.kind # "badjson" /\ ~handle_response(f)

\* _handle_order_message: nothing without a redReminder; the buyer id is
\* message['1'].split('@')[0], which raises unless message['1'] is a string,
\* and the except clause answers False; of the labels only three are handled.
HandledOrderLabels == {"pay", "closed", "ship"}

IsOrderMessage(m) ==
    m.order # "none" /\ m.one = "str" /\ m.order \in HandledOrderLabels

Notification(m) == [buyer |-> m.sender, title |-> m.title, price |-> m.price]

\* handle() from the order test to the parsed chat fields: what the decoded
\* document is taken for.  "raised": a chat field read by subscript is absent
\* and the KeyError leaves handle().
Classify(m) ==
    IF IsOrderMessage(m) THEN "order"
    ELSE IF m.one = "typing" THEN "typing"
    ELSE IF m.one # "chat" THEN "not_chat"
    ELSE IF m.missing = "early" THEN "raised"
    ELSE "chat"

\* Items whose itemDO, as the item API returns it, has no desc or no
\* soldPrice: the result passes the test for data.itemDO and is saved, and
\* reading item_info['desc'] then raises, from the API's answer and from the
\* cached copy alike.
IllShapedItems == {"i2"}

Dispatch(m, api) ==
    LET R == Registry IN
    IF IsExpired(m) THEN Outcome("expired", R, store, items, m)
    ELSE IF m.missing = "late" THEN Outcome("raised", R, store, items, m)
    ELSE IF m.item = NoItem THEN Outcome("no_item", R, store, items, m)
    ELSE IF IsSelf(m) THEN
        IF check_toggle_keywords(m.text)
        THEN Outcome("toggle", toggle_manual_mode(R, m.chat, now).reg, store, items, m)
        ELSE Outcome("self", R, Append(store, Record(m.chat, "assistant", m.text)),
                     items, m)
    ELSE LET st == Append(store, Record(m.chat, "user", m.text))
             R1 == after_is_manual_mode(R, m.chat, now)
         IN IF TakeoverGate(R, m.chat, now) THEN Outcome("manual", R1, st, items, m)
            ELSE IF m.sys THEN Outcome("system", R1, st, items, m)
            ELSE IF m.item \in items
                 THEN Outcome(IF m.item \in IllShapedItems THEN "raised" ELSE "submit",
                              R1, st, items, m)
            ELSE IF api = "ok"
                 THEN Outcome(IF m.item \in IllShapedItems THEN "raised" ELSE "submit",
                              R1, st, items \cup {m.item}, m)
                 ELSE Outcome("lookup_failed", R1, st, items, m)

\* The event of a handled chat message: "lapse" when is_manual_mode found the
\* conversation's takeover older than the timeout and removed it.
HandleOp(d) ==
    IF d.out # "toggle" /\ d.reg # Registry THEN "lapse" ELSE "handle"

(***************************************************************************)
(* Initial state: XianyuLive.__init__, HeartbeatManager.__init__ and       *)
(* MessageHandler.__init__; main() has not run yet.                        *)
(***************************************************************************)
Ev(op, out) == [op |-> op, out |-> out]

Init ==
    /\ now = 0
    /\ mainPc = "top" /\ mainWake = 0
    /\ gen = 0 /\ wsOpen = FALSE /\ inbox = <<>>
    /\ connection_restart_flag = FALSE
    /\ current_token = 0 /\ last_token_refresh_time = 0
    /\ tokPc = "off" /\ tokWake = 0 /\ issued = 0
    /\ last_heartbeat_time = 0 /\ last_heartbeat_response = 0
    /\ hbPc = "off" /\ hbWake = 0
    /\ hPc = "idle" /\ hMsg = NoMsg /\ hWs = 0
    /\ manual_mode_conversations = {} /\ manual_mode_timestamps = <<>>
    /\ store = <<>> /\ items = {} /\ sent = <<>> /\ notified = <<>>
    /\ acks = <<>>
    /\ regToken = 0 /\ chats = 0 /\ horizon = MaxTime
    /\ ev = Ev("init", "none")

(***************************************************************************)
(* XianyuLive.main                                                         *)
(***************************************************************************)
TokenDue == now - last_token_refresh_time >= TokenRefreshInterval

InitAlwaysRefreshes == TRUE

InitNeedsRefresh == current_token = 0 \/ TokenDue

\* init(): `if not self.current_token: raise` before the registration frame.
HoldsTokenAssumed(tok) == TRUE

HoldsToken(tok) == tok # 0

\* `self.connection_restart_flag = False`, the first statement of an attempt.
FlagKept == connection_restart_flag

FlagCleared == FALSE

\* Top of the loop: clear the flag, connect, run init() up to its sleep(1).
\* ok: whether the connection was established; r: the token service's answer
\* should refresh_token be called.
MainConnect ==
    /\ mainPc = "top"
    /\ gen < MaxGen
    /\ connection_restart_flag' = FlagCleared
    /\ \E ok \in BOOLEAN, r \in {"ok", "fail"} :
        LET refreshed == ok /\ InitNeedsRefresh /\ r = "ok" /\ issued < MaxTok
            tok == IF refreshed THEN issued + 1 ELSE current_token
        IN /\ ok \/ r = "fail"
           /\ InitNeedsRefresh \/ r = "fail"
           /\ gen' = IF ok THEN gen + 1 ELSE gen
           /\ wsOpen' = ok
           /\ inbox' = <<>>
           /\ current_token' = tok
           /\ issued' = IF refreshed THEN issued + 1 ELSE issued
           /\ last_token_refresh_time' = IF refreshed THEN now ELSE last_token_refresh_time
           /\ IF ok /\ HoldsToken(tok)
              THEN /\ regToken' = tok
                   /\ mainPc' = "init_sleep"
                   /\ mainWake' = now + InitSleep
                   /\ ev' = Ev("connect", IF refreshed THEN "refreshed" ELSE "registered")
              ELSE /\ regToken' = regToken
                   /\ mainPc' = "finally"
                   /\ mainWake' = 0
                   /\ ev' = Ev("connect", IF ok THEN "no_token" ELSE "failed")
    /\ UNCHANGED <<now, tokPc, tokWake, hbVars, handlerVars, registryVars, dataVars>>

\* HeartbeatManager.start: both times are set to the time of the start.
startKeepsTimes ==
    [last_heartbeat_time |-> last_heartbeat_time,
     last_heartbeat_response |-> last_heartbeat_response]

start == [last_heartbeat_time |-> now, last_heartbeat_response |-> now]

\* init() after its sleep(1): the ackDiff frame; then heartbeat.start(ws),
\* create_task(token_refresh_loop()) and the first ws read.
MainInitAck ==
    /\ mainPc = "init_sleep"
    /\ now >= mainWake
    /\ IF wsOpen
       THEN /\ last_heartbeat_time' = start.last_heartbeat_time
            /\ last_heartbeat_response' = start.last_heartbeat_response
            /\ hbPc' = "sleep" /\ hbWake' = now
            /\ tokPc' = "sleep" /\ tokWake' = now
            /\ mainPc' = "recv"
            /\ ev' = Ev("init", "active")
       ELSE /\ mainPc' = "finally"
            /\ ev' = Ev("init", "closed")
            /\ UNCHANGED <<hbVars, tokPc, tokWake>>
    /\ mainWake' = 0
    /\ UNCHANGED <<now, sockVars, connection_restart_flag, current_token,
                   last_token_refresh_time, issued, handlerVars, registryVars,
                   dataVars, regToken>>

\* The receive loop takes the next frame only when handle() has returned:
\* `async for message in ws` with `await self.handler.handle(...)` in its body.
CanReadUnawaited == mainPc = "recv" /\ inbox # <<>>

CanRead == mainPc = "recv" /\ hPc = "idle" /\ inbox # <<>>

\* `if self.connection_restart_flag: break` on the frame just read.
RecvBreak ==
    /\ CanRead
    /\ connection_restart_flag
    /\ inbox' = Tail(inbox)
    /\ mainPc' = "finally"
    /\ ev' = Ev("recv", "break")
    /\ UNCHANGED <<now, mainWake, gen, wsOpen, tokVars, hbVars, handlerVars,
                   registryVars, dataVars, regToken>>

\* The socket iterator ends (closed normally) or raises ConnectionClosed.
MainLoopEnd ==
    /\ mainPc = "recv" /\ hPc = "idle"
    /\ ~wsOpen
    /\ mainPc' = "finally"
    /\ ev' = Ev("recv", "closed")
    /\ UNCHANGED <<now, mainWake, sockVars, tokVars, hbVars, handlerVars,
                   registryVars, dataVars, regToken>>

\* A task after task.cancel() and `await task`: it no longer runs.
TaskLeftRunning == "sleep"

TaskCancelled == "off"

\* Leaving `async with` closes the socket; finally: heartbeat.stop(), cancel
\* and await the refresh task, then sleep(5) unless the flag is set.
MainFinally ==
    /\ mainPc = "finally"
    /\ wsOpen' = FALSE
    /\ inbox' = <<>>
    /\ hbPc' = TaskCancelled /\ hbWake' = 0
    /\ tokPc' = TaskCancelled /\ tokWake' = 0
    /\ IF connection_restart_flag
       THEN /\ mainPc' = "top" /\ mainWake' = 0
            /\ ev' = Ev("finally", "restart")
       ELSE /\ mainPc' = "backoff" /\ mainWake' = now + ReconnectSleep
            /\ ev' = Ev("finally", "backoff")
    /\ UNCHANGED <<now, gen, connection_restart_flag, current_token,
                   last_token_refresh_time, issued, last_heartbeat_time,
                   last_heartbeat_response, handlerVars, registryVars,
                   dataVars, regToken>>

\* asyncio.sleep(5) of the finally clause has returned.
BackoffNever == FALSE

BackoffSkipped == TRUE

BackoffElapsed == now >= mainWake

MainBackoffDone ==
    /\ mainPc = "backoff"
    /\ BackoffElapsed
    /\ mainPc' = "top"
    /\ mainWake' = 0
    /\ ev' = Ev("backoff", "done")
    /\ UNCHANGED <<now, sockVars, tokVars, hbVars, handlerVars,
                   registryVars, dataVars, regToken>>

(***************************************************************************)
(* HeartbeatManager                                                        *)
(***************************************************************************)
HeartbeatDue(current) == current - last_heartbeat_time >= HeartbeatInterval

HeartbeatTimedOutInclusive(current) ==
    (current - last_heartbeat_response) >= (HeartbeatInterval + HeartbeatTimeout)

HeartbeatTimedOut(current) ==
    (current - last_heartbeat_response) > (HeartbeatInterval + HeartbeatTimeout)

\* One iteration of loop(): sample the clock, send when due, test the timeout,
\* sleep(1).  A send on a closed socket raises and the except clause breaks.
HbLoop ==
    /\ hbPc = "sleep"
    /\ now >= hbWake
    /\ LET current == now IN
       IF HeartbeatDue(current) /\ ~wsOpen
       THEN /\ hbPc' = "failed"
            /\ hbWake' = 0
            /\ ev' = Ev("heartbeat", "send_error")
            /\ UNCHANGED last_heartbeat_time
       ELSE /\ last_heartbeat_time' =
                   IF HeartbeatDue(current) THEN now ELSE last_heartbeat_time
            /\ IF HeartbeatTimedOut(current)
               THEN /\ hbPc' = "expired"
                    /\ hbWake' = 0
                    /\ ev' = Ev("heartbeat", "timeout")
               ELSE /\ hbPc' = "sleep"
                    /\ hbWake' = now + HeartbeatSleep
                    /\ ev' = Ev("heartbeat",
                                IF HeartbeatDue(current) THEN "sent" ELSE "idle")
    /\ UNCHANGED <<now, mainVars, sockVars, tokVars, last_heartbeat_response,
                   handlerVars, registryVars, dataVars, regToken>>

\* handle_response: a frame with code 200 and headers.mid.
RecvHeartbeatAck ==
    /\ CanRead
    /\ ~connection_restart_flag
    /\ Head(inbox).kind # "badjson" /\ handle_response(Head(inbox))
    /\ inbox' = Tail(inbox)
    /\ last_heartbeat_response' = now
    /\ ev' = Ev("recv", "heartbeat_ack")
    /\ UNCHANGED <<now, mainVars, gen, wsOpen, tokVars, last_heartbeat_time, hbPc,
                   hbWake, handlerVars, registryVars, dataVars, regToken>>

(***************************************************************************)
(* XianyuLive.token_refresh_loop                                           *)
(***************************************************************************)
\* Not yet due: sleep(60).
TokPoll ==
    /\ tokPc = "sleep"
    /\ now >= tokWake
    /\ ~TokenDue
    /\ tokWake' = now + TokenPollSleep
    /\ ev' = Ev("token", "poll")
    /\ UNCHANGED <<now, mainVars, sockVars, connection_restart_flag, current_token,
                   last_token_refresh_time, tokPc, issued, hbVars, handlerVars,
                   registryVars, dataVars, regToken>>

\* Due and refresh_token() returned a token: install it, set the flag, close
\* the socket, leave the loop.
TokRefreshOk ==
    /\ tokPc = "sleep"
    /\ now >= tokWake
    /\ TokenDue
    /\ issued < MaxTok
    /\ current_token' = issued + 1
    /\ issued' = issued + 1
    /\ last_token_refresh_time' = now
    /\ connection_restart_flag' = TRUE
    /\ wsOpen' = FALSE
    /\ tokPc' = "done"
    /\ tokWake' = 0
    /\ ev' = Ev("token", "rotated")
    /\ UNCHANGED <<now, mainVars, gen, inbox, hbVars, handlerVars,
                   registryVars, dataVars, regToken>>

TokRefreshFailClosing ==
    /\ tokPc = "sleep"
    /\ now >= tokWake
    /\ TokenDue
    /\ tokWake' = now + TokenRetryInterval
    /\ connection_restart_flag' = TRUE
    /\ wsOpen' = FALSE
    /\ ev' = Ev("token", "refresh_failed")
    /\ UNCHANGED <<now, mainVars, gen, inbox, current_token,
                   last_token_refresh_time, tokPc, issued, hbVars, handlerVars,
                   registryVars, dataVars, regToken>>

\* Due and refresh_token() returned None (bad answer or exception inside it):
\* sleep(token_retry_interval) and try again.
TokRefreshFail ==
    /\ tokPc = "sleep"
    /\ now >= tokWake
    /\ TokenDue
    /\ tokWake' = now + TokenRetryInterval
    /\ ev' = Ev("token", "refresh_failed")
    /\ UNCHANGED <<now, mainVars, sockVars, connection_restart_flag, current_token,
                   last_token_refresh_time, tokPc, issued, hbVars, handlerVars,
                   registryVars, dataVars, regToken>>

(***************************************************************************)
(* MessageHandler.handle, called and awaited by the receive loop           *)
(***************************************************************************)
\* Where main() is after an exception of the loop body: both except clauses
\* are inside `async for`, so it reads the next frame.
AfterFrameErrorLeaves == "finally"

AfterFrameError == "recv"

\* json.loads(message) raises JSONDecodeError: logged by the receive loop,
\* which goes on to the next frame.
RecvBadJson ==
    /\ CanRead
    /\ ~connection_restart_flag
    /\ Head(inbox).kind = "badjson"
    /\ inbox' = Tail(inbox)
    /\ mainPc' = AfterFrameError
    /\ ev' = Ev("recv", "bad_json")
    /\ UNCHANGED <<now, mainWake, gen, wsOpen, tokVars, hbVars, handlerVars,
                   registryVars, dataVars, regToken>>

\* A frame that is neither a heartbeat answer nor a decodable sync package:
\* it is acknowledged and yields no event (decrypt failure: logged).
RecvOther ==
    /\ CanRead
    /\ ~connection_restart_flag
    /\ IsHandled(Head(inbox)) /\ Decode(Head(inbox).body) # "document"
    /\ inbox' = Tail(inbox)
    /\ acks' = AcksAfter(Head(inbox))
    /\ ev' = Ev("handle", Decode(Head(inbox).body))
    /\ UNCHANGED <<now, mainVars, gen, wsOpen, tokVars, hbVars, handlerVars,
                   registryVars, store, items, sent, notified, chats, horizon,
                   regToken>>

\* A sync package with a decrypted document: handle() up to its return, to
\* the exception that leaves it (caught and logged by the receive loop), or
\* to run_in_executor.
RecvChat ==
    /\ CanRead
    /\ ~connection_restart_flag
    /\ IsHandled(Head(inbox)) /\ Decode(Head(inbox).body) = "document"
    /\ inbox' = Tail(inbox)
    /\ acks' = AcksAfter(Head(inbox))
    /\ IF Classify(Head(inbox)) = "chat"
       THEN \E api \in {"ok", "fail"} :
            LET d == Dispatch(sync_data(Head(inbox)), api) IN
            /\ api = "ok" \/ d.out = "lookup_failed"
            /\ manual_mode_conversations' = d.reg.convs
            /\ manual_mode_timestamps' = d.reg.ts
            /\ store' = d.store
            /\ items' = d.items
            /\ notified' = notified
            /\ IF d.out = "submit"
               THEN hPc' = "computing" /\ hMsg' = d.msg /\ hWs' = gen
               ELSE UNCHANGED handlerVars
            /\ ev' = Ev(HandleOp(d), d.out)
       ELSE /\ notified' =
                   IF IsOrderMessage(Head(inbox)) /\ Head(inbox).order = "ship"
                   THEN Append(notified, Notification(Head(inbox)))
                   ELSE notified
            /\ ev' = Ev("handle", Classify(Head(inbox)))
            /\ UNCHANGED <<registryVars, store, items, handlerVars>>
    /\ UNCHANGED <<now, mainVars, gen, wsOpen, tokVars, hbVars, sent, chats, horizon,
                   regToken>>

SocketAssumedOpen(ws) == TRUE

SocketOpen(ws) == ws = gen /\ wsOpen

\* The executor's future completes: process_message returned a text (possibly
\* empty) or raised; send_msg(ws, ...) on the socket the message came from.
\* send_msg is called with whatever process_message returned, the empty
\* text included; nothing is sent when it raised.
RepliesNonEmpty(r) == r = "text"

Replies(r) == r # "raise"

\* process_message writes to the same store (agent.storage.get_store is
\* storage.get_database): the user's message on every path that returns, and
\* the reply when it is not empty.  When it raises, the user's message was
\* saved (saved) or not, as the exception came after or before that call.
ReplyText == <<"r">>

AfterProcessMessage(r, saved) ==
    LET withUser ==
            IF saved THEN Append(store, Record(hMsg.chat, "user", hMsg.text))
            ELSE store
    IN IF r = "text"
       THEN Append(withUser, Record(hMsg.chat, "assistant", ReplyText))
       ELSE withUser

ReplyDone ==
    /\ hPc = "computing"
    /\ \E r \in {"text", "empty", "raise"}, saved \in BOOLEAN :
        /\ r # "raise" => saved
        /\ store' = AfterProcessMessage(r, saved)
        /\ IF Replies(r) /\ SocketOpen(hWs)
           THEN /\ sent' = Append(sent, [chat |-> hMsg.chat, to |-> hMsg.sender,
                                         ws |-> hWs, text |-> r])
                /\ ev' = Ev("reply", "sent")
           ELSE /\ sent' = sent
                /\ ev' = Ev("reply", IF r = "raise" THEN "failed" ELSE "send_error")
    /\ hPc' = "idle" /\ hMsg' = NoMsg /\ hWs' = 0
    /\ mainPc' = IF ev'.out = "sent" THEN mainPc ELSE AfterFrameError
    /\ UNCHANGED <<now, mainWake, sockVars, tokVars, hbVars, registryVars,
                   items, notified, acks, chats, horizon, regToken>>

(***************************************************************************)
(* The server and the clock                                                *)
(***************************************************************************)
ChatFrames ==
    [kind : {"chat"}, chat : Convs, sender : Customers \cup {MyId}, text : Texts,
     ctime : {NowMs, NowMs - MessageExpireTime, NowMs - MessageExpireTime - 1},
     item : ItemIds \cup {NoItem}, sys : {FALSE}, order : {"none"},
     one : {"chat"}, missing : {"none"}, title : {"t1"}, price : {"p1"},
     headers : {PushHeaders}, body : {CipherBody}]

\* A customer's fresh message about an item, in the first conversation.
PlainChatFrames ==
    {f \in ChatFrames : /\ f.sender \in Customers /\ f.ctime = NowMs
                        /\ f.item \in ItemIds /\ f.chat = "c1"
                        /\ ~check_toggle_keywords(f.text)}

Deliver(f) ==
    /\ wsOpen /\ Len(inbox) < MaxInbox
    /\ inbox' = Append(inbox, f)
    /\ UNCHANGED <<now, mainVars, gen, wsOpen, tokVars, hbVars, handlerVars,
                   registryVars, store, items, sent, notified, acks, horizon,
                   regToken>>

ServerChat ==
    /\ chats < MaxChat
    /\ \E f \in ChatFrames : Deliver(f)
    /\ chats' = chats + 1
    /\ ev' = Ev("server", "chat")

ServerCustomerChat ==
    /\ chats < MaxSessionChat
    /\ \E f \in PlainChatFrames : Deliver(f)
    /\ chats' = chats + 1
    /\ ev' = Ev("server", "chat")

\* Frames the receive loop cannot make an event of: text that is no JSON, a
\* payload that does not decrypt, a chat document without its sender fields.
MalformedFrames ==
    {BadJsonFrame, UndecryptableFrame}
        \cup {[f EXCEPT !.missing = "early"] : f \in PlainChatFrames}

ServerRobustFrame ==
    /\ chats < MaxChat
    /\ \E f \in MalformedFrames \cup PlainChatFrames : Deliver(f)
    /\ chats' = chats + 1
    /\ ev' = Ev("server", "frame")

\* The server's code-200 answer to a frame other than a heartbeat (the
\* registration, an outbound chat frame).
ServerResponse ==
    /\ chats < MaxChat
    /\ Deliver(ResponseFrame)
    /\ chats' = chats + 1
    /\ ev' = Ev("server", "response")

ServerAck ==
    /\ Deliver(AckFrame)
    /\ chats' = chats
    /\ ev' = Ev("server", "ack")

ServerOther ==
    /\ chats < MaxChat
    /\ Deliver(OtherFrame)
    /\ chats' = chats + 1
    /\ ev' = Ev("server", "other")

ServerClose ==
    /\ wsOpen
    /\ wsOpen' = FALSE
    /\ ev' = Ev("server", "close")
    /\ UNCHANGED <<now, mainVars, gen, inbox, tokVars, hbVars, handlerVars,
                   registryVars, dataVars, regToken>>

\* A coroutine that can run without waiting for a timer, a frame or the
\* executor.
Runnable ==
    \/ mainPc = "top" /\ gen < MaxGen
    \/ mainPc = "init_sleep" /\ now >= mainWake
    \/ mainPc = "backoff" /\ BackoffElapsed
    \/ CanRead
    \/ mainPc = "recv" /\ hPc = "idle" /\ ~wsOpen
    \/ mainPc = "finally"
    \/ hbPc = "sleep" /\ now >= hbWake
    \/ tokPc = "sleep" /\ now >= tokWake

Tick ==
    /\ now < horizon
    /\ ~Runnable
    /\ now' = now + 1
    /\ ev' = Ev("tick", "none")
    /\ UNCHANGED <<mainVars, sockVars, tokVars, hbVars, handlerVars, registryVars,
                   dataVars, regToken>>

Next ==
    \/ MainConnect \/ MainInitAck \/ RecvBreak \/ MainLoopEnd \/ MainFinally
    \/ MainBackoffDone
    \/ HbLoop \/ RecvHeartbeatAck
    \/ TokPoll \/ TokRefreshOk \/ TokRefreshFail
    \/ RecvChat \/ ReplyDone
    \/ ServerCustomerChat \/ ServerAck \/ ServerClose
    \/ Tick

Spec == Init /\ [][Next]_vars

(***************************************************************************)
(* The event loop runs main() when it is ready to leave the receive loop   *)
(* and to tear the connection down, and a reply computation handed to the  *)
(* executor is assumed to return.  Nothing is assumed of the other         *)
(* coroutines, of the server or of the clock.                              *)
(***************************************************************************)
Fairness ==
    /\ WF_vars(RecvBreak \/ MainLoopEnd) /\ WF_vars(MainFinally)
    /\ WF_vars(ReplyDone)

FairSpec == Spec /\ Fairness

\* The event loop runs main() whenever it can go on (no step of it blocks
\* but its awaits), every reply computation returns, and time passes.
MainStep ==
    \/ MainConnect \/ MainInitAck \/ RecvBreak \/ MainLoopEnd \/ MainFinally
    \/ MainBackoffDone

FairnessLoop == WF_vars(MainStep) /\ WF_vars(ReplyDone) /\ WF_vars(Tick)

\* The program from its start, over a shorter stretch of time.
InitLoop ==
    /\ now = 0
    /\ mainPc = "top" /\ mainWake = 0
    /\ gen = 0 /\ wsOpen = FALSE /\ inbox = <<>>
    /\ connection_restart_flag = FALSE
    /\ current_token = 0 /\ last_token_refresh_time = 0
    /\ tokPc = "off" /\ tokWake = 0 /\ issued = 0
    /\ last_heartbeat_time = 0 /\ last_heartbeat_response = 0
    /\ hbPc = "off" /\ hbWake = 0
    /\ hPc = "idle" /\ hMsg = NoMsg /\ hWs = 0
    /\ manual_mode_conversations = {} /\ manual_mode_timestamps = <<>>
    /\ store = <<>> /\ items = {} /\ sent = <<>> /\ notified = <<>>
    /\ acks = <<>>
    /\ regToken = 0 /\ chats = 0 /\ horizon = LoopTime
    /\ ev = Ev("init", "none")

FairSpecLoop == InitLoop /\ [][Next]_vars /\ FairnessLoop

(***************************************************************************)
(* The dispatcher alone: one connection in its receive loop, the server    *)
(* sending chat messages of every shape.  The heartbeat and refresh tasks  *)
(* do not touch the dispatcher's state and are left out.                   *)
(***************************************************************************)
InitDispatch ==
    /\ now = 0
    /\ mainPc = "recv" /\ mainWake = 0
    /\ gen = 1 /\ wsOpen = TRUE /\ inbox = <<>>
    /\ connection_restart_flag = FALSE
    /\ current_token = 1 /\ last_token_refresh_time = 0
    /\ tokPc = "off" /\ tokWake = 0 /\ issued = 1
    /\ last_heartbeat_time = 0 /\ last_heartbeat_response = 0
    /\ hbPc = "off" /\ hbWake = 0
    /\ hPc = "idle" /\ hMsg = NoMsg /\ hWs = 0
    /\ manual_mode_conversations = {} /\ manual_mode_timestamps = <<>>
    /\ store = <<>> /\ items = {} /\ sent = <<>> /\ notified = <<>>
    /\ acks = <<>>
    /\ regToken = 1 /\ chats = 0 /\ horizon = DispatchTime
    /\ ev = Ev("init", "none")

NextDispatch ==
    \/ RecvChat \/ RecvOther \/ ReplyDone
    \/ ServerChat \/ ServerOther
    \/ Tick

SpecDispatch == InitDispatch /\ [][NextDispatch]_vars

(***************************************************************************)
(* One conversation about one item on an active connection: the owner's    *)
(* and the customer's fresh messages arrive while time passes beyond the    *)
(* takeover timeout.                                                       *)
(***************************************************************************)
TakeoverFrames ==
    {f \in ChatFrames : f.ctime = NowMs /\ f.item \in ItemIds /\ f.chat = "c1"}

ServerTakeoverChat ==
    /\ chats < MaxChat
    /\ \E f \in TakeoverFrames : Deliver(f)
    /\ chats' = chats + 1
    /\ ev' = Ev("server", "chat")

InitTakeover ==
    /\ now = 0
    /\ mainPc = "recv" /\ mainWake = 0
    /\ gen = 1 /\ wsOpen = TRUE /\ inbox = <<>>
    /\ connection_restart_flag = FALSE
    /\ current_token = 1 /\ last_token_refresh_time = 0
    /\ tokPc = "off" /\ tokWake = 0 /\ issued = 1
    /\ last_heartbeat_time = 0 /\ last_heartbeat_response = 0
    /\ hbPc = "off" /\ hbWake = 0
    /\ hPc = "idle" /\ hMsg = NoMsg /\ hWs = 0
    /\ manual_mode_conversations = {} /\ manual_mode_timestamps = <<>>
    /\ store = <<>> /\ items = {} /\ sent = <<>> /\ notified = <<>>
    /\ acks = <<>>
    /\ regToken = 1 /\ chats = 0 /\ horizon = TakeoverTime
    /\ ev = Ev("init", "none")

NextTakeover == RecvChat \/ ReplyDone \/ ServerTakeoverChat \/ Tick

SpecTakeover == InitTakeover /\ [][NextTakeover]_vars

(***************************************************************************)
(* One frame of any shape: the connection is in its receive loop and a     *)
(* sync package with a decrypted document waits on the socket, once or     *)
(* twice (the server may deliver a frame again).  The documents are the    *)
(* chat messages of every text up to MaxTextLen, with the two texts of the *)
(* dispatcher the documents of every shape, and the frames of every shape  *)
(* of headers and body.                                                    *)
(***************************************************************************)
Alphabet == {Space, "o", "k"}

FrameTexts == UNION {[1..n -> Alphabet] : n \in 0..MaxTextLen}

TextPayloads ==
    [kind : {"chat"}, chat : {"c1"}, sender : Customers \cup {MyId},
     text : FrameTexts, ctime : {0}, item : ItemIds \cup {NoItem}, sys : {FALSE},
     order : {"none"}, one : {"chat"}, missing : {"none"}, title : {"t1"},
     price : {"p1"},
     headers : {PushHeaders}, body : {CipherBody}]

ShapePayloads ==
    [kind : {"chat"}, chat : {"c1"}, sender : Customers \cup {MyId},
     text : Texts, ctime : {0, 0 - MessageExpireTime - 1},
     item : ItemIds \cup {NoItem}, sys : BOOLEAN,
     order : OrderLabels \cup {"none"}, one : OneShapes, missing : MissingFields,
     title : Titles, price : {"p1"},
     headers : {PushHeaders}, body : {CipherBody}]

\* A customer's chat message under every shape of headers and of body, the
\* two code-200 answers, code-200 documents without headers or without a
\* mid, and text that is no JSON.
HeaderShapes ==
    {NoHeaders, PushHeaders,
     [has |-> TRUE, mid |-> "", sid |-> "", keys |-> {"ua"}],
     [has |-> TRUE, mid |-> "m1", sid |-> "", keys |-> MirroredKeys]}

WireBodies ==
    [sync : BOOLEAN, data : BOOLEAN, plain : BOOLEAN, decrypts : BOOLEAN,
     more : {<<>>}]

WireFrames ==
    {[f EXCEPT !.kind = "wire", !.headers = h, !.body = b] :
        f \in PlainChatFrames, h \in HeaderShapes, b \in WireBodies}
        \cup {AckFrame, ResponseFrame, BadJsonFrame}
        \cup {[AckFrame EXCEPT !.headers = h] :
                h \in {NoHeaders, [has |-> TRUE, mid |-> "", sid |-> "s1",
                                  keys |-> {}]}}

\* Sync packages of several updates: the first is a customer's message, or
\* plaintext, or without data, or undecryptable; the further ones are chat
\* messages of the same customer with a text of their own.
MoreText == <<"m">>

BatchBodies ==
    {[b EXCEPT !.more = <<MoreText>>] :
        b \in {CipherBody, GarbledBody, [CipherBody EXCEPT !.plain = TRUE],
               [CipherBody EXCEPT !.data = FALSE]}}

BatchFrames ==
    {[f EXCEPT !.kind = "batch", !.body = b] :
        f \in PlainChatFrames, b \in BatchBodies}

\* A customer's message about an item whose itemDO is ill-shaped.
IllShapedItemFrames ==
    {[f EXCEPT !.item = i] : f \in PlainChatFrames, i \in IllShapedItems}

InitFrame ==
    /\ now = 0
    /\ mainPc = "recv" /\ mainWake = 0
    /\ gen = 1 /\ wsOpen = TRUE
    /\ \E f \in TextPayloads \cup ShapePayloads \cup WireFrames
                 \cup IllShapedItemFrames \cup BatchFrames :
        inbox \in {<<f>>, <<f, f>>}
    /\ connection_restart_flag = FALSE
    /\ current_token = 1 /\ last_token_refresh_time = 0
    /\ tokPc = "off" /\ tokWake = 0 /\ issued = 1
    /\ last_heartbeat_time = 0 /\ last_heartbeat_response = 0
    /\ hbPc = "off" /\ hbWake = 0
    /\ hPc = "idle" /\ hMsg = NoMsg /\ hWs = 0
    /\ \E R \in {[convs |-> {}, ts |-> <<>>],
                  enter_manual_mode([convs |-> {}, ts |-> <<>>], "c1", 0)} :
        manual_mode_conversations = R.convs /\ manual_mode_timestamps = R.ts
    /\ store = <<>> /\ items \in {{}, ItemIds} /\ sent = <<>> /\ notified = <<>>
    /\ acks = <<>>
    /\ regToken = 1 /\ chats = 1 /\ horizon = 0
    /\ ev = Ev("init", "none")

NextFrame ==
    \/ RecvChat \/ RecvOther \/ RecvBadJson \/ RecvHeartbeatAck
    \/ ReplyDone

SpecFrame == InitFrame /\ [][NextFrame]_vars

(***************************************************************************)
(* The takeover registry alone: enter, exit, toggle and is_manual_mode     *)
(* called in any order on any conversation while time passes.  The event   *)
(* holds the call, its conversation, its answer and whether it met an      *)
(* entry older than the timeout.                                           *)
(***************************************************************************)
RegistryCall(op, c, out) ==
    [op |-> op, out |-> out, chat |-> c,
     lapsed |-> c \in manual_mode_conversations /\ ManualExpired(Registry, c, now)]

otherVars ==
    <<now, mainVars, sockVars, tokVars, hbVars, handlerVars, dataVars, regToken>>

CallEnter ==
    /\ \E c \in Convs :
        LET R == enter_manual_mode(Registry, c, now) IN
        /\ manual_mode_conversations' = R.convs
        /\ manual_mode_timestamps' = R.ts
        /\ ev' = RegistryCall("enter", c, "none")
    /\ UNCHANGED otherVars

CallExit ==
    /\ \E c \in Convs :
        LET R == exit_manual_mode(Registry, c) IN
        /\ manual_mode_conversations' = R.convs
        /\ manual_mode_timestamps' = R.ts
        /\ ev' = RegistryCall("exit", c, "none")
    /\ UNCHANGED otherVars

CallToggle ==
    /\ \E c \in Convs :
        LET T == toggle_manual_mode(Registry, c, now) IN
        /\ manual_mode_conversations' = T.reg.convs
        /\ manual_mode_timestamps' = T.reg.ts
        /\ ev' = RegistryCall("toggle", c, T.mode)
    /\ UNCHANGED otherVars

CallIsManual ==
    /\ \E c \in Convs :
        LET R == after_is_manual_mode(Registry, c, now) IN
        /\ manual_mode_conversations' = R.convs
        /\ manual_mode_timestamps' = R.ts
        /\ ev' = RegistryCall("is_manual_mode", c,
                              IF is_manual_mode(Registry, c, now) THEN "true"
                              ELSE "false")
    /\ UNCHANGED otherVars

InitRegistry ==
    /\ now = 0
    /\ mainPc = "recv" /\ mainWake = 0
    /\ gen = 1 /\ wsOpen = TRUE /\ inbox = <<>>
    /\ connection_restart_flag = FALSE
    /\ current_token = 1 /\ last_token_refresh_time = 0
    /\ tokPc = "off" /\ tokWake = 0 /\ issued = 1
    /\ last_heartbeat_time = 0 /\ last_heartbeat_response = 0
    /\ hbPc = "off" /\ hbWake = 0
    /\ hPc = "idle" /\ hMsg = NoMsg /\ hWs = 0
    /\ manual_mode_conversations = {} /\ manual_mode_timestamps = <<>>
    /\ store = <<>> /\ items = {} /\ sent = <<>> /\ notified = <<>>
    /\ acks = <<>>
    /\ regToken = 1 /\ chats = 0 /\ horizon = RegistryTime
    /\ ev = Ev("init", "none")

NextRegistry == CallEnter \/ CallExit \/ CallToggle \/ CallIsManual \/ Tick

SpecRegistry == InitRegistry /\ [][NextRegistry]_vars

(***************************************************************************)
(* One active connection with its heartbeat and refresh tasks, the server  *)
(* sending well-formed and malformed frames and closing the socket when it *)
(* likes; the exploration ends with the connection.                        *)
(***************************************************************************)
InitRobust ==
    /\ now = InitSleep
    /\ mainPc = "recv" /\ mainWake = 0
    /\ gen = 1 /\ wsOpen = TRUE /\ inbox = <<>>
    /\ connection_restart_flag = FALSE
    /\ current_token = 1 /\ last_token_refresh_time = 0
    /\ tokPc = "sleep" /\ tokWake = now /\ issued = 1
    /\ last_heartbeat_time = now /\ last_heartbeat_response = now
    /\ hbPc = "sleep" /\ hbWake = now
    /\ hPc = "idle" /\ hMsg = NoMsg /\ hWs = 0
    /\ manual_mode_conversations = {} /\ manual_mode_timestamps = <<>>
    /\ store = <<>> /\ items = {} /\ sent = <<>> /\ notified = <<>>
    /\ acks = <<>>
    /\ regToken = 1 /\ chats = 0 /\ horizon = RobustTime
    /\ ev = Ev("init", "active")

NextRobust ==
    \/ RecvChat \/ RecvOther \/ RecvBadJson \/ RecvHeartbeatAck \/ ReplyDone
    \/ HbLoop \/ TokPoll
    \/ MainLoopEnd \/ MainFinally
    \/ ServerRobustFrame \/ ServerResponse \/ ServerAck \/ ServerClose
    \/ Tick

SpecRobust == InitRobust /\ [][NextRobust]_vars

(***************************************************************************)
(* Properties                                                              *)
(***************************************************************************)
Last(q) == q[Len(q)]

HeadIsPayload == CanRead /\ ~connection_restart_flag /\ Head(inbox).kind = "chat"

HeadIsChat == HeadIsPayload /\ Classify(Head(inbox)) = "chat"

ActiveTakeover(c) ==
    /\ c \in manual_mode_conversations
    /\ ~(c \in DOMAIN manual_mode_timestamps
         /\ now - manual_mode_timestamps[c] > ManualModeTimeout)

\* C1 (SpecDispatch): a customer's chat message that is handled while its
\* conversation is in active takeover is not submitted to the worker pool and
\* no chat frame goes out.
C1_TakeoverSuppression ==
    [][(/\ HeadIsChat
        /\ Head(inbox).sender # MyId
        /\ ActiveTakeover(Head(inbox).chat))
       => (hPc' = "idle" /\ sent' = sent)]_vars

C1_Witness == ev = Ev("handle", "manual") /\ hPc = "idle"

\* C2 (SpecDispatch): every outbound chat frame goes to a conversation that is
\* not in active takeover when the frame is sent, also when the owner's toggle
\* message reached the socket while the reply was being computed.
C2_NoReplyInTakeover ==
    [][sent' # sent =>
        /\ Len(sent') = Len(sent) + 1
        /\ ~ActiveTakeover(Last(sent').chat)
        /\ Last(sent').chat \notin manual_mode_conversations']_vars

C2_Witness ==
    /\ ev = Ev("reply", "sent")
    /\ \E i \in 1..Len(inbox) :
        /\ inbox[i].kind = "chat" /\ inbox[i].sender = MyId
        /\ inbox[i].text = ToggleKeywords /\ inbox[i].item # NoItem
        /\ inbox[i].chat = Last(sent).chat
        /\ NowMs - inbox[i].ctime <= MessageExpireTime

\* C9 (SpecDispatch): a chat message older than the expiry window when it is
\* handled leaves the store, the takeover registry, the worker pool and the
\* outbound frames untouched; a customer's message exactly at the window
\* boundary is not dropped: it is recorded.
C9_Expiry ==
    [][/\ (HeadIsChat /\ NowMs - Head(inbox).ctime > MessageExpireTime)
          => /\ store' = store /\ sent' = sent /\ hPc' = "idle"
             /\ UNCHANGED registryVars
       /\ (/\ HeadIsChat /\ NowMs - Head(inbox).ctime = MessageExpireTime
           /\ Head(inbox).sender # MyId /\ Head(inbox).item # NoItem
           /\ inbox' = Tail(inbox))
          => store' = Append(store, Record(Head(inbox).chat, "user", Head(inbox).text))
      ]_vars

C9_Witness == ev = Ev("handle", "expired") /\ store = <<>> /\ sent = <<>>

\* C10 (SpecDispatch): handling a non-expired message of the own identity whose
\* text is the toggle phrase flips the takeover state of its conversation and
\* neither records nor submits anything.
C10_SelfToggleFlips ==
    [][(/\ HeadIsChat
        /\ Head(inbox).sender = MyId
        /\ Head(inbox).text = ToggleKeywords
        /\ NowMs - Head(inbox).ctime <= MessageExpireTime
        /\ inbox' = Tail(inbox))
       => /\ (Head(inbox).chat \in manual_mode_conversations')
                = ~ActiveTakeover(Head(inbox).chat)
          /\ store' = store /\ hPc' = "idle"]_vars

\* C11 (SpecFrame): handling a non-expired chat message with an item id flips
\* the takeover state of its conversation exactly when the message is of the
\* own identity and its trimmed text equals the toggle phrase; an empty
\* trimmed text, a proper substring of the phrase and a customer's message
\* flip nothing.
C11_ExactToggle ==
    [][(/\ HeadIsChat
        /\ NowMs - Head(inbox).ctime <= MessageExpireTime
        /\ Head(inbox).missing = "none" /\ Head(inbox).item # NoItem
        /\ inbox' = Tail(inbox))
       => (((Head(inbox).chat \in manual_mode_conversations')
                # ActiveTakeover(Head(inbox).chat))
           <=> (/\ Head(inbox).sender = MyId
                /\ Strip(Head(inbox).text) = ToggleKeywords))]_vars

\* C12 (SpecFrame): handling a document with an order reminder calls the
\* notification once with the buyer, title and price of that document when
\* the label is "awaiting shipment" and not at all for another label, and
\* submits nothing to the worker pool.
C12_OrderNotification ==
    [][(HeadIsPayload /\ Head(inbox).order # "none" /\ inbox' = Tail(inbox))
       => /\ notified' =
                IF Head(inbox).order = "ship"
                THEN Append(notified, [buyer |-> Head(inbox).sender,
                                       title |-> Head(inbox).title,
                                       price |-> Head(inbox).price])
                ELSE notified
          /\ hPc' = "idle"]_vars

\* C13 (SpecFrame): handling a chat document that lacks one of its further
\* fields raises nothing out of handle() and records, submits and toggles
\* nothing.
C13_ClassificationTotal ==
    [][(/\ HeadIsPayload
        /\ Head(inbox).order = "none" /\ Head(inbox).one = "chat"
        /\ Head(inbox).missing # "none"
        /\ inbox' = Tail(inbox))
       => /\ ev' # Ev("handle", "raised")
          /\ store' = store /\ hPc' = "idle"
          /\ UNCHANGED registryVars]_vars

\* C15 (SpecFrame): the socket carries one chat message, once or twice; at
\* most one reply frame goes out to its conversation and sender.
C15_NoDuplicateReply ==
    \A i, j \in 1..Len(sent) :
        (sent[i].chat = sent[j].chat /\ sent[i].to = sent[j].to) => i = j

\* C19 (SpecFrame): a document with a non-empty order reminder is taken for
\* an order event whatever its label and its other fields: handling it
\* records nothing in the store, leaves the takeover registry alone and
\* submits nothing.
C19_OrderPrecedence ==
    [][(HeadIsPayload /\ Head(inbox).order # "none" /\ inbox' = Tail(inbox))
       => /\ store' = store /\ hPc' = "idle"
          /\ UNCHANGED registryVars]_vars

\* C20 (SpecFrame): the control step comes right after the expiry step: a
\* non-expired message of the own identity whose text is the toggle phrase
\* enters takeover for its conversation when it is not in active takeover and
\* leaves it otherwise, with or without an item id and whether or not item
\* info is cached.
C20_ControlBeforeItem ==
    [][(/\ HeadIsPayload
        /\ Head(inbox).order = "none" /\ Head(inbox).one = "chat"
        /\ Head(inbox).missing = "none"
        /\ NowMs - Head(inbox).ctime <= MessageExpireTime
        /\ Head(inbox).sender = MyId
        /\ Head(inbox).text = ToggleKeywords
        /\ inbox' = Tail(inbox))
       => manual_mode_conversations' =
            IF ActiveTakeover(Head(inbox).chat)
            THEN manual_mode_conversations \ {Head(inbox).chat}
            ELSE manual_mode_conversations \cup {Head(inbox).chat}]_vars

\* C14 (SpecRobust): text that is no JSON, a payload that does not decrypt, a
\* chat document without its fields, a failed item lookup and a failed reply
\* computation each leave the receive loop reading on the same open socket and
\* the heartbeat and refresh tasks as they were; and a frame that waits while
\* no reply is computed is read before the clock moves.
FailureEvents ==
    {Ev("recv", "bad_json"), Ev("handle", "decrypt_failed"), Ev("handle", "raised"),
     Ev("handle", "lookup_failed"), Ev("reply", "failed")}

C14_ReceiveLoopRobust ==
    [][/\ (ev' \in FailureEvents)
          => /\ mainPc = "recv" /\ mainPc' = "recv" /\ hPc' = "idle"
             /\ UNCHANGED <<hbPc, hbWake, tokPc, tokWake, wsOpen, gen,
                            connection_restart_flag>>
             /\ (inbox' = inbox \/ (inbox # <<>> /\ inbox' = Tail(inbox)))
       /\ (mainPc = "recv" /\ hPc = "idle" /\ inbox # <<>>) => now' = now
      ]_vars

C14_Witness ==
    /\ ev = Ev("handle", "submit")
    /\ gen = 1 /\ wsOpen /\ inbox = <<>>
    /\ chats = 2 /\ Len(store) = 1
    /\ hbPc = "sleep" /\ tokPc = "sleep"

\* C16 (Spec): the teardown goes straight to the next connection attempt when
\* the planned-restart flag is set, which it is only after a rotation by the
\* refresh task of that connection, and into the backoff in every other case;
\* the backoff is left only for the next attempt and only when the full
\* delay has passed.
C16_ReconnectDelay ==
    [][/\ (mainPc = "finally" /\ mainPc' # "finally")
          => /\ connection_restart_flag => (mainPc' = "top" /\ tokPc = "done")
             /\ ~connection_restart_flag
                  => (mainPc' = "backoff" /\ mainWake' = now + ReconnectSleep)
       /\ (mainPc = "backoff" /\ mainPc' = "backoff") => mainWake' = mainWake
       /\ (mainPc = "backoff" /\ mainPc' # "backoff")
          => (mainPc' = "top" /\ now >= mainWake)
       /\ (mainPc = "backoff") => (gen' = gen /\ ~wsOpen')
      ]_vars

C16_Witness ==
    /\ ev = Ev("backoff", "done")
    /\ gen = 1 /\ last_heartbeat_time > 0
    /\ ~connection_restart_flag

\* C17 (Spec): the teardown leaves neither the heartbeat loop nor the refresh
\* loop running; none runs while the next connection is awaited, attempted or
\* registered; and the loops are started only when none is running.
C17_StructuredTeardown ==
    /\ [](mainPc \in {"top", "backoff", "init_sleep"}
            => (hbPc # "sleep" /\ tokPc # "sleep"))
    /\ [][/\ (mainPc = "finally" /\ mainPc' # "finally")
             => (hbPc' = "off" /\ tokPc' = "off")
          /\ (hbPc' = "sleep" /\ hbPc # "sleep")
             => (hbPc = "off" /\ tokPc = "off" /\ mainPc' = "recv")
          /\ (tokPc' = "sleep" /\ tokPc # "sleep")
             => (hbPc = "off" /\ tokPc = "off" /\ mainPc' = "recv")
         ]_vars

C17_Witness ==
    /\ mainPc = "top" /\ gen = 1
    /\ last_heartbeat_time > 0
    /\ hbPc = "off" /\ tokPc = "off"

\* C18 (SpecDispatch): frames leave the socket from the front, one at a time
\* and only when the handling of the frame before has returned; while a reply
\* is computed the waiting frames keep their order; and a reply frame answers
\* the message whose handling is in flight, so replies go out in the order
\* their messages arrived.
C18_ArrivalOrder ==
    [][/\ (Len(inbox') < Len(inbox)) => (hPc = "idle" /\ inbox' = Tail(inbox))
       /\ (hPc = "computing")
          => (inbox' = inbox
              \/ (Len(inbox') = Len(inbox) + 1
                  /\ SubSeq(inbox', 1, Len(inbox)) = inbox))
       /\ (hPc' = "computing" /\ hPc = "idle") => hMsg' = Head(inbox)
       /\ (sent' # sent)
          => /\ hPc = "computing" /\ hPc' = "idle"
             /\ sent' = Append(sent, Last(sent'))
             /\ Last(sent').chat = hMsg.chat /\ Last(sent').to = hMsg.sender
      ]_vars

C18_Witness ==
    /\ ev = Ev("reply", "sent")
    /\ Len(sent) = 2 /\ sent[1].chat # sent[2].chat
    /\ inbox = <<>>

\* C3 (Spec): once the heartbeat loop has left by timeout, the connection does
\* not stay in its receive loop on the open socket while time goes on.
C3_ExpiryTearsDown ==
    [][(hbPc = "expired" /\ wsOpen /\ mainPc = "recv" /\ hPc = "idle")
       => now' = now]_vars

\* C4 (Spec): a frame waiting on the socket is read before time goes on, also
\* while a reply computation is in flight.
C4_FramesServedDuringReply ==
    [][(mainPc = "recv" /\ hPc = "computing" /\ inbox # <<>>) => now' = now]_vars

\* C5 (Spec): a rotation happens only when the credential is due, installs a
\* new credential issued now, sets the flag and closes the socket; the
\* teardown skips the backoff exactly when the refresh task of that connection
\* rotated; a registration carries the newest credential; and no credential is
\* requested while the held one is younger than the refresh interval.
C5_Rotation ==
    [][/\ (tokPc = "sleep" /\ tokPc' = "done")
          => /\ now - last_token_refresh_time >= TokenRefreshInterval
             /\ current_token' # current_token /\ current_token' = issued'
             /\ last_token_refresh_time' = now
             /\ connection_restart_flag' /\ ~wsOpen'
       /\ (mainPc = "finally" /\ mainPc' # "finally")
          => ((mainPc' = "top") = (tokPc = "done"))
       /\ (mainPc = "top" /\ mainPc' = "init_sleep")
          => (regToken' = issued' /\ regToken' = current_token')
       /\ (issued' # issued \/ ev' = Ev("token", "refresh_failed"))
          => (current_token = 0
              \/ now - last_token_refresh_time >= TokenRefreshInterval)
      ]_vars

\* C5 (FairSpec), the progress half: after a rotation the connection is left
\* and the loop is back at its top, where the next connection is attempted.
C5_RotationReconnects == C5_Rotation /\ ((tokPc = "done") ~> (mainPc = "top"))

C5_Witness ==
    /\ ev = Ev("connect", "registered")
    /\ gen = 2 /\ regToken = 2
    /\ now - last_token_refresh_time < TokenRefreshInterval

\* C6 (Spec): a failed refresh in the refresh loop changes neither the
\* credential, its issue time, the flag, the socket nor the receive loop, and
\* the loop tries again after the retry interval.
C6_RefreshFailure ==
    [][ev' = Ev("token", "refresh_failed")
       => /\ UNCHANGED <<current_token, last_token_refresh_time,
                         connection_restart_flag, wsOpen, gen, inbox, mainPc,
                         hbPc, hPc>>
          /\ tokPc' = "sleep" /\ tokWake' = now + TokenRetryInterval]_vars

C6_Witness ==
    /\ ev = Ev("token", "refresh_failed")
    /\ wsOpen /\ mainPc = "recv" /\ ~connection_restart_flag
    /\ now - last_token_refresh_time >= TokenRefreshInterval + TokenRetryInterval

\* C7 (Spec): a reply is sent only on the open socket its message came from;
\* while a reply is computed the socket is not replaced; a reply that finds
\* its socket closed is dropped and the receive loop goes on to its end.
C7_StaleSocketDiscard ==
    /\ [](hPc = "computing" => (hWs = gen /\ mainPc = "recv"))
    /\ [][/\ sent' # sent
             => (wsOpen /\ Last(sent').ws = gen /\ Last(sent').ws = hWs)
          /\ (hPc = "computing" /\ hPc' = "idle" /\ ~wsOpen)
             => (sent' = sent /\ mainPc' = "recv")]_vars

C7_Witness == ev = Ev("reply", "send_error") /\ ~wsOpen /\ mainPc = "recv"

FrameRead == mainPc = "recv" /\ inbox # <<>> /\ inbox' = Tail(inbox)

\* C21 (SpecFrame): every frame that parses and carries headers is answered
\* with one acknowledgement that mirrors its mid (when it has one) and its
\* sid and copies just those of app-key, ua and dt it carries, whatever its
\* payload is and whether or not the payload is then discarded.
C21_AckThenProcess ==
    [][(FrameRead /\ Head(inbox).kind # "badjson" /\ Head(inbox).headers.has)
       => /\ Len(acks') = Len(acks) + 1
          /\ Last(acks').sid = Head(inbox).headers.sid
          /\ Head(inbox).headers.mid # ""
                => Last(acks').mid = Head(inbox).headers.mid
          /\ Last(acks').keys = Head(inbox).headers.keys \cap MirroredKeys]_vars

\* C22 (Spec): every chat frame the receive loop reads from the socket is
\* acknowledged and handed on (the customer's message is recorded), also
\* when the planned-restart flag is set: the flag ends the loop only after
\* the frame that was read has been handled.
C22_FlagAfterFrame ==
    [][(FrameRead /\ Head(inbox).kind = "chat")
       => /\ Len(acks') = Len(acks) + 1
          /\ store' # store]_vars

\* C23 (SpecRobust): a code-200 frame whose mid is not that of a heartbeat
\* leaves the time of the last heartbeat acknowledgement as it was.
C23_OnlyHeartbeatMid ==
    [][(FrameRead /\ Head(inbox).kind = "ack200"
            /\ Head(inbox).headers.mid # HeartbeatAckHeaders.mid)
       => last_heartbeat_response' = last_heartbeat_response]_vars

\* C24 (SpecFrame): of a handled frame, one that is no sync package or has an
\* empty payload, one whose payload parses as plaintext (whether or not it
\* would also decrypt) and one whose payload does not decrypt each yield
\* nothing and leave the loop reading; a customer's chat message is recorded
\* exactly when its frame is a sync package with a payload that is not
\* plaintext and decrypts.
C24_DecodingPrecedence ==
    [][(FrameRead /\ Head(inbox).kind = "wire")
       => LET b == Head(inbox).body IN
          /\ mainPc' = "recv"
          /\ IF b.sync /\ b.data /\ ~b.plain /\ b.decrypts
             THEN store' = Append(store, Record(Head(inbox).chat, "user",
                                                 Head(inbox).text))
             ELSE /\ UNCHANGED <<store, items, sent, notified, registryVars,
                                 handlerVars>>
                  /\ ev' = Ev("handle",
                              IF ~b.sync THEN "not_sync"
                              ELSE IF ~b.data THEN "no_data"
                              ELSE IF b.plain THEN "plaintext"
                              ELSE "decrypt_failed")]_vars

C24_Witness ==
    /\ ev = Ev("handle", "plaintext")
    /\ store = <<>> /\ mainPc = "recv"
    /\ inbox # <<>> /\ Head(inbox).body.plain /\ Head(inbox).body.decrypts

\* C25 (SpecRobust): a reply computation that raises sends no frame, leaves
\* the receive loop reading on the same socket with the frames that wait
\* still waiting, and the handler free; and the customer's message read
\* right after it is submitted for its reply like any other (unless its own
\* item lookup fails).
C25_ReplyFailureIsolated ==
    [][/\ (ev' = Ev("reply", "failed"))
          => /\ hPc = "computing" /\ hPc' = "idle"
             /\ sent' = sent
             /\ mainPc = "recv" /\ mainPc' = "recv"
             /\ UNCHANGED <<inbox, wsOpen, gen, hbPc, tokPc, registryVars>>
       /\ (/\ ev = Ev("reply", "failed")
           /\ FrameRead /\ Head(inbox) \in PlainChatFrames
           /\ ~ActiveTakeover(Head(inbox).chat))
          => \/ /\ hPc' = "computing" /\ hMsg' = Head(inbox) /\ hWs' = gen
                /\ ev' = Ev("handle", "submit")
             \/ ev' = Ev("handle", "lookup_failed")]_vars

C25_Witness ==
    /\ ev = Ev("reply", "failed")
    /\ mainPc = "recv" /\ wsOpen /\ hPc = "idle" /\ sent = <<>>
    /\ inbox # <<>> /\ Head(inbox) \in PlainChatFrames

\* C26 (SpecFrame): handling a chat message leaves a cached item as it is,
\* and it stores item info only for the item of the message and only when
\* the message then goes on to its reply computation: a lookup that fails or
\* whose result is ill-shaped caches nothing.
C26_ItemLookup ==
    [][(FrameRead /\ Head(inbox).kind = "chat")
       => /\ items \subseteq items'
          /\ items' # items
                => /\ items' = items \cup {Head(inbox).item}
                   /\ hPc' = "computing" /\ hMsg' = Head(inbox)]_vars

\* C27 (SpecTakeover): every conversation in takeover has its time of entry;
\* entering at time t, on an active conversation too, makes t its time of
\* entry and the conversation active up to t + timeout; a customer's message
\* for a conversation entered at most the timeout ago is suppressed and
\* leaves the registry alone, and one for a conversation entered longer ago
\* removes the entry and goes on to its reply, with no message of the owner.
C27_TakeoverTTL ==
    /\ [](/\ DOMAIN manual_mode_timestamps = manual_mode_conversations
          /\ \A c \in Convs : \A t \in now..(now + 1) :
                LET E == enter_manual_mode(Registry, c, t) IN
                /\ E.ts[c] = t /\ c \in E.convs
                /\ \A u \in t..(t + ManualModeTimeout + 1) :
                      is_manual_mode(E, c, u) <=> u - t <= ManualModeTimeout)
    /\ [][(/\ FrameRead /\ HeadIsChat
           /\ Head(inbox).sender # MyId /\ Head(inbox).item # NoItem
           /\ NowMs - Head(inbox).ctime <= MessageExpireTime
           /\ Head(inbox).chat \in manual_mode_conversations)
          => LET c == Head(inbox).chat IN
             IF now - manual_mode_timestamps[c] <= ManualModeTimeout
             THEN /\ hPc' = "idle" /\ sent' = sent
                  /\ UNCHANGED registryVars
             ELSE /\ c \notin manual_mode_conversations'
                  /\ c \notin DOMAIN manual_mode_timestamps'
                  /\ \/ hPc' = "computing" /\ hMsg' = Head(inbox)
                     \/ ev'.out = "lookup_failed"]_vars

C27_Witness ==
    /\ ev = Ev("lapse", "submit")
    /\ hPc = "computing" /\ hMsg.chat \notin manual_mode_conversations
    /\ hMsg.sender # MyId

\* C28 (SpecFrame): a non-expired chat message of the own identity whose
\* trimmed text is not the toggle phrase is recorded once with role
\* assistant and nothing else happens: no item lookup, no submission, no
\* outbound frame and no change of the takeover registry, in takeover or not.
C28_OwnMessageRecorded ==
    [][(/\ FrameRead /\ HeadIsChat
        /\ Head(inbox).missing = "none"
        /\ NowMs - Head(inbox).ctime <= MessageExpireTime
        /\ Head(inbox).sender = MyId
        /\ Strip(Head(inbox).text) # ToggleKeywords)
       => /\ store' = Append(store, Record(Head(inbox).chat, "assistant",
                                            Head(inbox).text))
          /\ hPc' = "idle" /\ items' = items /\ sent' = sent
          /\ UNCHANGED registryVars]_vars

\* C29 (Spec): the registration frame goes out only on an established
\* connection and with the credential held at that moment, the second frame
\* of init() only after it; the heartbeat loop, the refresh loop and the
\* receive loop start together and only when init() has sent both; and an
\* attempt that fails to connect, holds no credential or loses its socket
\* during init() goes to the teardown with no loop started.
C29_SessionStartOrder ==
    /\ [](mainPc = "init_sleep"
            => /\ current_token # 0 /\ regToken = current_token
               /\ hbPc = "off" /\ tokPc = "off" /\ hPc = "idle")
    /\ [][/\ (mainPc = "top" /\ mainPc' # "top")
             => IF wsOpen' /\ current_token' # 0
                THEN mainPc' = "init_sleep" /\ regToken' = current_token'
                ELSE /\ mainPc' = "finally" /\ regToken' = regToken
                     /\ hbPc' = "off" /\ tokPc' = "off"
          /\ (mainPc = "init_sleep" /\ mainPc' # "init_sleep")
             => IF wsOpen
                THEN mainPc' = "recv" /\ hbPc' = "sleep" /\ tokPc' = "sleep"
                ELSE mainPc' = "finally" /\ hbPc' = "off" /\ tokPc' = "off"
          /\ (mainPc' = "recv" /\ mainPc # "recv") => mainPc = "init_sleep"
          /\ (hbPc' = "sleep" /\ hbPc # "sleep") => mainPc = "init_sleep"
          /\ (tokPc' = "sleep" /\ tokPc # "sleep") => mainPc = "init_sleep"
         ]_vars

C29_Witness ==
    /\ ev = Ev("init", "active")
    /\ mainPc = "recv" /\ hbPc = "sleep" /\ tokPc = "sleep"
    /\ regToken = current_token /\ current_token # 0
    /\ gen = 2

\* C30 (FairSpecLoop): once the socket is closed, the connection or the
\* registration has failed or the receive loop was left for a planned
\* restart, main() comes back to the top of its loop and attempts the next
\* connection, unless the clock of the model stops during a sleep or the
\* model's cap on connections is reached at the top.
ClockAtHorizon ==
    now = horizon /\ mainPc \in {"backoff", "init_sleep"} /\ now < mainWake

ConnectionOver ==
    \/ mainPc \in {"finally", "backoff"}
    \/ mainPc \in {"recv", "init_sleep"} /\ ~wsOpen

C30_LoopNeverTerminal ==
    (ConnectionOver \/ mainPc = "top")
        ~> \/ ev.op = "connect"
           \/ ClockAtHorizon
           \/ mainPc = "top" /\ gen = MaxGen

C30_Witness ==
    /\ ev.op = "connect" /\ mainPc = "init_sleep"
    /\ gen = 2 /\ last_heartbeat_time > 0
    /\ ~connection_restart_flag

(***************************************************************************)
(* Routing, the heartbeat task, replies and the registry                   *)
(***************************************************************************)
\* C31 (SpecFrame): of the frames that parse and reach handle_response, one
\* with code 200 and a mid in its headers is consumed: no acknowledgement
\* goes back and nothing is decoded, recorded, notified or submitted; every
\* other one is handed to handle(), which acknowledges it when it carries
\* headers.
C31_AckConsumed ==
    [][(FrameRead /\ ~connection_restart_flag /\ Head(inbox).kind # "badjson")
       => IF /\ Head(inbox).kind = "ack200"
             /\ Head(inbox).headers.has /\ Head(inbox).headers.mid # ""
          THEN /\ acks' = acks
               /\ ev' = Ev("recv", "heartbeat_ack")
               /\ UNCHANGED <<store, items, sent, notified, registryVars,
                              handlerVars>>
          ELSE /\ ev'.op \in {"handle", "lapse"}
               /\ Len(acks') = Len(acks) + (IF Head(inbox).headers.has THEN 1 ELSE 0)
      ]_vars

C31_Witness ==
    /\ ev = Ev("recv", "heartbeat_ack")
    /\ acks = <<>> /\ store = <<>> /\ hPc = "idle"
    /\ inbox # <<>> /\ Head(inbox).kind = "ack200"

\* C32 (Spec): once the teardown has stopped the heartbeat monitor, whatever
\* its loop was doing (sleeping, ended by timeout or by a failed send, never
\* started), the loop is gone: a heartbeat is sent only by a running loop of
\* the connection in its receive loop, and the time of the last heartbeat
\* moves only there or at the next start.
C32_StopEndsHeartbeat ==
    /\ [](mainPc \in {"top", "backoff", "init_sleep"} => hbPc = "off")
    /\ [][/\ (mainPc = "finally" /\ mainPc' # "finally")
             => (hbPc' = "off" /\ last_heartbeat_time' = last_heartbeat_time)
          /\ (ev'.op = "heartbeat")
             => (hbPc = "sleep" /\ mainPc \in {"recv", "finally"} /\ now >= hbWake)
          /\ (last_heartbeat_time' # last_heartbeat_time)
             => \/ hbPc = "sleep" /\ ev'.op = "heartbeat"
                \/ mainPc = "init_sleep" /\ hbPc = "off" /\ hbPc' = "sleep"
         ]_vars

C32_Witness ==
    /\ mainPc = "backoff" /\ hbPc = "off"
    /\ last_heartbeat_time > 0
    /\ now - last_heartbeat_time >= HeartbeatInterval

\* C33 (SpecRobust): one reply computation at a time: while one is pending
\* no other frame is taken from the socket, nothing is recorded or
\* submitted, the pending message stays the same until its reply was sent or
\* failed, and main() stays in the receive loop of the same connection,
\* also when the socket is closed meanwhile.
C33_OneReplyInFlight ==
    /\ [](hPc = "computing" => (mainPc = "recv" /\ hWs = gen /\ hMsg # NoMsg))
    /\ [][(hPc = "computing")
          => /\ mainPc' = "recv" /\ gen' = gen
             /\ acks' = acks /\ items' = items
             /\ hPc' = "computing" => store' = store
             /\ Len(inbox') >= Len(inbox)
             /\ IF hPc' = "computing"
                THEN hMsg' = hMsg /\ hWs' = hWs /\ sent' = sent
                ELSE hPc' = "idle" /\ ev'.op = "reply"]_vars
    /\ [][(hPc = "idle" /\ hPc' = "computing")
          => (FrameRead /\ hMsg' = Head(inbox) /\ hWs' = gen)]_vars

C33_Witness ==
    /\ hPc = "computing" /\ ~wsOpen
    /\ inbox # <<>> /\ Head(inbox) \in PlainChatFrames
    /\ mainPc = "recv"

C35_RegistryConsistent ==
    /\ [](DOMAIN manual_mode_timestamps = manual_mode_conversations)
    /\ [][(ev'.op \in {"enter", "exit", "toggle", "is_manual_mode"})
          => LET c == ev'.chat IN
             /\ \A d \in Convs \ {c} :
                  /\ (d \in manual_mode_conversations')
                        = (d \in manual_mode_conversations)
                  /\ d \in manual_mode_conversations
                        => manual_mode_timestamps'[d] = manual_mode_timestamps[d]
             /\ ev'.op = "toggle"
                  => /\ (ev'.out = "manual") = ~ActiveTakeover(c)
                     /\ (c \in manual_mode_conversations') = (ev'.out = "manual")
                     /\ ev'.out = "manual" => manual_mode_timestamps'[c] = now
                     /\ ev'.out \in {"manual", "auto"}
             /\ ev'.op = "is_manual_mode"
                  => /\ (ev'.out = "true") = ActiveTakeover(c)
                     /\ (c \in manual_mode_conversations') = ActiveTakeover(c)
                     /\ ActiveTakeover(c) => UNCHANGED registryVars
             /\ ev'.op = "enter"
                  => (c \in manual_mode_conversations'
                      /\ manual_mode_timestamps'[c] = now)
             /\ ev'.op = "exit" => c \notin manual_mode_conversations']_vars

C35_Witness ==
    /\ ev.op = "toggle" /\ ev.out = "manual" /\ ev.lapsed
    /\ ev.chat \in manual_mode_conversations
    /\ manual_mode_timestamps[ev.chat] = now

UserTurns(st) == Len(SelectSeq(st, LAMBDA rec : rec.role = "user"))

\* C36 (SpecFrame): a customer's chat message that is not expired and has an
\* item id is recorded as a user turn by the step that reads its frame,
\* whatever the takeover gate, the system-notice filter and the item lookup
\* then decide, and no other step adds a user turn, so that it is recorded
\* once; an expired message and a message without an item id leave the
\* store as it is.
C36_RecordedOnce ==
    [][/\ (/\ FrameRead /\ HeadIsChat
           /\ Head(inbox).sender # MyId /\ Head(inbox).missing = "none")
          => LET m == Head(inbox) IN
             IF IsExpired(m) \/ m.item = NoItem
             THEN store' = store
             ELSE store' = Append(store, Record(m.chat, "user", m.text))
       /\ ~FrameRead => UserTurns(store') = UserTurns(store)]_vars

\* C37 (SpecFrame): of a sync package with several updates the first alone
\* is decoded and handled: the frame is acknowledged once as a whole, what
\* the step records and submits is the first update's message, nothing
\* happens when the first update is plaintext, without data or
\* undecryptable, and no store record and no reply computation ever
\* carries the text of a further update.
C37_FirstUpdateOnly ==
    /\ [](/\ \A i \in 1..Len(store) : store[i].text # MoreText
          /\ hMsg.text # MoreText)
    /\ [][(FrameRead /\ IsHandled(Head(inbox)) /\ Head(inbox).body.more # <<>>)
          => LET f == Head(inbox) IN
             /\ acks' = AcksAfter(f)
             /\ sent' = sent /\ notified' = notified
             /\ IF Decode(f.body) = "document"
                THEN /\ store' \in {store, Append(store, Record(f.chat, "user", f.text))}
                     /\ hPc' = "computing" => hMsg' = f
                ELSE /\ store' = store /\ UNCHANGED handlerVars
                     /\ ev' = Ev("handle", Decode(f.body))]_vars

C37_Witness ==
    /\ hPc = "computing" /\ hMsg.body.more = <<MoreText>>
    /\ store = <<Record(hMsg.chat, "user", hMsg.text)>>
    /\ Len(acks) = 1 /\ ev = Ev("handle", "submit")

(***************************************************************************)
(* The connection cycle alone: main(), the heartbeat and the token refresh *)
(* loop, with a server that answers heartbeats and closes the socket but   *)
(* sends no payload.                                                       *)
(***************************************************************************)
ConnectionTime == 7

InitConnection ==
    /\ now = 0
    /\ mainPc = "top" /\ mainWake = 0
    /\ gen = 0 /\ wsOpen = FALSE /\ inbox = <<>>
    /\ connection_restart_flag = FALSE
    /\ current_token = 0 /\ last_token_refresh_time = 0
    /\ tokPc = "off" /\ tokWake = 0 /\ issued = 0
    /\ last_heartbeat_time = 0 /\ last_heartbeat_response = 0
    /\ hbPc = "off" /\ hbWake = 0
    /\ hPc = "idle" /\ hMsg = NoMsg /\ hWs = 0
    /\ manual_mode_conversations = {} /\ manual_mode_timestamps = <<>>
    /\ store = <<>> /\ items = {} /\ sent = <<>> /\ notified = <<>>
    /\ acks = <<>>
    /\ regToken = 0 /\ chats = 0 /\ horizon = ConnectionTime
    /\ ev = Ev("init", "none")

NextConnection ==
    \/ MainConnect \/ MainInitAck \/ RecvBreak \/ MainLoopEnd \/ MainFinally
    \/ MainBackoffDone
    \/ HbLoop \/ RecvHeartbeatAck
    \/ TokPoll \/ TokRefreshOk \/ TokRefreshFail
    \/ ServerAck \/ ServerClose
    \/ Tick

SpecConnection == InitConnection /\ [][NextConnection]_vars

StartedAt(t) == ev = Ev("init", "active") /\ now = t

\* C38 (SpecConnection): a start of the heartbeat monitor sets the time of the last
\* heartbeat and of the last answer to the time of the start; from a start
\* at time t on, no heartbeat is sent before t + interval and no timeout is
\* reported before t + interval + timeout, however old the answer times of
\* the connection before were.
C38_StartResetsTimes ==
    /\ [](ev = Ev("init", "active")
            => last_heartbeat_time = now /\ last_heartbeat_response = now)
    /\ \A t \in 0..ConnectionTime :
         [](StartedAt(t)
              => [](/\ (now < t + HeartbeatInterval /\ ev.op = "heartbeat")
                          => ev.out = "idle"
                    /\ now < t + HeartbeatInterval + HeartbeatTimeout
                          => ev # Ev("heartbeat", "timeout")))

C38_Witness ==
    /\ gen = 2 /\ hbPc = "sleep" /\ ev = Ev("heartbeat", "idle")
    /\ last_heartbeat_time = last_heartbeat_response
    /\ now = last_heartbeat_time + 1
    /\ now > HeartbeatInterval + HeartbeatTimeout + 1

ConnectionMade == mainPc = "top" /\ wsOpen'

\* C39 (SpecConnection): on an established connection init() obtains a new
\* credential only when none is held or the held one is at least the refresh
\* interval old, and otherwise leaves credential and refresh time alone; the
\* attempt is given up, with no registration sent and the backoff before the
\* next attempt, exactly when no credential is held after that; when one is
\* held, refreshed or not, registration is sent with it.
C39_RefreshAtRegistration ==
    /\ [][ConnectionMade
          => /\ ~InitNeedsRefresh
                  => UNCHANGED <<current_token, last_token_refresh_time, issued>>
             /\ current_token' # current_token
                  => /\ current_token = 0 \/ TokenDue
                     /\ last_token_refresh_time' = now
                     /\ ev' = Ev("connect", "refreshed")
             /\ current_token' = current_token
                  => last_token_refresh_time' = last_token_refresh_time
             /\ IF current_token' = 0
                THEN /\ mainPc' = "finally" /\ regToken' = regToken
                     /\ ev' = Ev("connect", "no_token")
                ELSE /\ mainPc' = "init_sleep" /\ regToken' = current_token']_vars
    /\ [](ev = Ev("connect", "no_token")
            => mainPc = "finally" /\ ~connection_restart_flag)
    /\ [][(ev = Ev("connect", "no_token") /\ mainPc' # mainPc)
          => /\ mainPc' = "backoff" /\ mainWake' = now + ReconnectSleep
             /\ regToken' = regToken]_vars

C39_Witness ==
    /\ ev = Ev("connect", "registered") /\ mainPc = "init_sleep" /\ wsOpen
    /\ current_token # 0 /\ TokenDue /\ issued < MaxTok
    /\ regToken = current_token

\* C40 (SpecConnection): every connection attempt begins with the flag
\* cleared, and only a successful refresh in the refresh loop sets it; the
\* teardown skips the backoff only with the flag set, so a connection
\* attempt that fails to connect or to register, the one right after a
\* planned restart too, is followed by the backoff.
C40_RestartFlagOneShot ==
    /\ []((mainPc = "init_sleep" \/ (mainPc = "finally" /\ ev.op \in {"connect", "init"}))
            => ~connection_restart_flag)
    /\ [][/\ ev'.op = "connect" => ~connection_restart_flag'
          /\ (connection_restart_flag' /\ ~connection_restart_flag)
                => /\ ev' = Ev("token", "rotated")
                   /\ current_token' # current_token
                   /\ last_token_refresh_time' = now
          /\ ev' = Ev("finally", "restart")
                => connection_restart_flag /\ mainPc' = "top"
          /\ (mainPc = "finally" /\ ev.op \in {"connect", "init"} /\ mainPc' # mainPc)
                => /\ ev' = Ev("finally", "backoff")
                   /\ mainPc' = "backoff" /\ mainWake' = now + ReconnectSleep]_vars

C40_Witness ==
    /\ mainPc = "backoff" /\ ev = Ev("finally", "backoff")
    /\ ~connection_restart_flag
    /\ issued >= 2 /\ last_token_refresh_time = now
    /\ mainWake = now + ReconnectSleep

====
